---- MODULE Spec2Model ----
(***************************************************************************)
(* Medit native backend (Tauri): the command surface of commands.rs        *)
(* (read_file, write_file, the two file dialogs, update_menu_labels), the  *)
(* menu construction of menu.rs and the startup and menu-event dispatch of *)
(* lib.rs.                                                                 *)
(*                                                                         *)
(* The subsystems share no state except the installed menu, so each  *)
(* has a specification of its own over the same variables:                 *)
(*   SpecDispatch  startup + menu clicks          (lib.rs, menu.rs)        *)
(*   SpecLabels    startup + update_menu_labels   (commands.rs, menu.rs)   *)
(*   SpecFs        read_file / write_file         (commands.rs)            *)
(*   SpecDialog    open_file_dialog / save_file_dialog (commands.rs)       *)
(*                                                                         *)
(* TLA+ strings are ASCII: the Chinese display labels of menu.rs are       *)
(* written as ASCII glosses, the original text is in the comment beside.   *)
(***************************************************************************)
EXTENDS Integers, Sequences, FiniteSets, TLC

VARIABLES
    \* ---- startup and menu (lib.rs, menu.rs)
    macos,        \* cfg(target_os = "macos"): fixed by the build
    pc,           \* position of the setup closure of run()
    app_menu,     \* the local app_menu of the setup closure (create_menu's Ok value)
    menu,         \* the menu installed in the app (what app.menu() returns)
    handler,      \* on_menu_event callback registered
    window,       \* app.get_webview_window("main") is Some
    createFail,   \* history: the step of create_menu that failed (0: none)
    createCalls,  \* history: number of create_menu calls
    clicks,       \* number of menu events dispatched so far
    lastClick,    \* history: [id, window, installed] of the last dispatched menu event
    emitted,      \* the window.emit calls made by the last handle_menu_event
    \* ---- update_menu_labels (commands.rs)
    updates,      \* number of update_menu_labels calls so far
    lastUpdate,   \* history: [labels, fail, result, before] of the last call on the
                  \* menu as it is (called = FALSE: none since the menu was set)
    expected,     \* history: id -> label the successful calls so far ask for
    clean,        \* history: no update_menu_labels call has failed so far
    \* ---- read_file / write_file (commands.rs)
    fs,           \* path -> the file there (bytes and access), or NoFile
    dirw,         \* path -> the process may create a file there
    pending,      \* history: path -> text of the last successful write_file not overwritten since
    lastFile,     \* history: [op, path, arg, result] of the last file command
    \* ---- dialogs (commands.rs)
    inv,          \* invocation -> its state (the handler's position, its channel, its result)
    pick          \* history: invocation -> what the native dialog delivered

menuVars   == <<macos, pc, app_menu, menu, handler, window, createFail, createCalls>>
clickVars  == <<clicks, lastClick, emitted>>
labelVars  == <<updates, lastUpdate, expected, clean>>
fsVars     == <<fs, dirw, pending, lastFile>>
dialogVars == <<inv, pick>>
vars == <<menuVars, clickVars, labelVars, fsVars, dialogVars>>

(***************************************************************************)
(* Option values                                                           *)
(***************************************************************************)
None == [some |-> FALSE]
Some(v) == [some |-> TRUE, val |-> v]

(***************************************************************************)
(* menu.rs: the menu tree                                                  *)
(***************************************************************************)
NoMenu == None   \* app.menu() is None / no Menu value held

\* MenuItem::with_id(app, id, text, true, accelerator)
MenuItem(id, text) == [kind |-> "MenuItem", id |-> id, text |-> text]
\* PredefinedMenuItem::*(app, None): the toolkit's own item; its id is generated
\* by the toolkit and is none of the identifiers this repository names.
Predefined(what) == [kind |-> "Predefined", id |-> "<generated>", text |-> what]
\* Submenu::with_id(app, id, text, true) with its appended children
Submenu(id, text, items) == [kind |-> "Submenu", id |-> id, text |-> text, items |-> items]

create_file_menu(mac) ==
    Submenu("file", "File",                                    \* "文件"
        << MenuItem("file:new", "New"),                         \* "新建"
           MenuItem("file:open", "Open..."),                    \* "打开..."
           Predefined("separator"),
           MenuItem("file:save", "Save"),                       \* "保存"
           MenuItem("file:save-as", "Save As..."),              \* "另存为..."
           Predefined("separator") >>
        \o (IF mac THEN <<>> ELSE << MenuItem("file:exit", "Exit") >>))   \* "退出"

create_edit_menu ==
    Submenu("edit", "Edit",                                    \* "编辑"
        << Predefined("undo"), Predefined("redo"), Predefined("separator"),
           Predefined("cut"), Predefined("copy"), Predefined("paste"),
           Predefined("select_all"), Predefined("separator"),
           MenuItem("edit:find", "Find...") >>)                 \* "查找..."

create_view_menu ==
    Submenu("view", "View",                                    \* "视图"
        << MenuItem("view:edit-mode", "Edit Mode"),             \* "编辑模式"
           MenuItem("view:preview-mode", "Preview Mode"),       \* "预览模式"
           MenuItem("view:split-mode", "Split Mode"),           \* "分屏模式"
           Predefined("separator"),
           MenuItem("view:zoom-in", "Zoom In"),                 \* "放大"
           MenuItem("view:zoom-out", "Zoom Out"),               \* "缩小"
           MenuItem("view:reset-zoom", "Reset Zoom") >>)        \* "重置缩放"

create_help_menu(mac) ==
    Submenu("help", "Help",                                    \* "帮助"
        (IF mac THEN <<>> ELSE << MenuItem("help:about", "About Medit") >>)  \* "关于 Medit"
        \o << MenuItem("help:docs", "Documentation"),           \* "文档"
              Predefined("separator"),
              MenuItem("help:shortcuts", "Keyboard Shortcuts") >>)   \* "快捷键参考"

create_app_menu ==
    Submenu("app", "Medit",
        << MenuItem("app:about", "About Medit"),                \* "关于 Medit"
           Predefined("separator"),
           MenuItem("app:preferences", "Preferences..."),       \* "偏好设置..."
           Predefined("separator"),
           Predefined("hide"), Predefined("hide_others"), Predefined("show_all"),
           Predefined("separator"),
           MenuItem("app:quit", "Quit Medit") >>)               \* "退出 Medit"

\* The submenus create_menu builds and appends, in order.
Submenus(mac) ==
    (IF mac THEN << create_app_menu >> ELSE <<>>)
    \o << create_file_menu(mac), create_edit_menu, create_view_menu, create_help_menu(mac) >>

\* Every `?` of the construction is a step that may fail.  A submenu takes
\* one step for Submenu::with_id and two per child (create it, append it);
\* create_menu takes one for Menu::new and, per submenu, the submenu's steps
\* and one for menu.append.
SubmenuSteps(sm) == 1 + 2 * Len(sm.items)

RECURSIVE StepsUpTo(_, _)
\* the number of steps create_menu has taken once the first k submenus are appended
StepsUpTo(subs, k) ==
    IF k = 0 THEN 1 ELSE StepsUpTo(subs, k - 1) + SubmenuSteps(subs[k]) + 1

CreateSteps(mac) == StepsUpTo(Submenus(mac), Len(Submenus(mac)))

\* The local `menu` of create_menu when step failAt fails (0: none fails):
\* the submenus whose menu.append was reached.
BuiltBefore(mac, failAt) ==
    LET subs == Submenus(mac)
        done == IF failAt = 0 THEN Len(subs)
                ELSE Cardinality({k \in 1..Len(subs) : StepsUpTo(subs, k) < failAt})
    IN  SubSeq(subs, 1, done)

create_menu_partial(mac, failAt) == [ok |-> TRUE, menu |-> Some(BuiltBefore(mac, failAt))]

\* create_menu: every step is followed by `?`, so a failing step returns Err
\* and the partly built menu is dropped.
create_menu(mac, failAt) ==
    IF failAt = 0
    THEN [ok |-> TRUE, menu |-> Some(BuiltBefore(mac, 0))]
    ELSE [ok |-> FALSE, menu |-> NoMenu]

\* The identifiers given to MenuItem::with_id in a menu tree.
ItemIds(m) ==
    UNION { {m[i].items[j].id :
                j \in {k \in 1..Len(m[i].items) : m[i].items[k].kind = "MenuItem"}} :
            i \in 1..Len(m) }

\* The identifiers given to Submenu::with_id in a menu tree.
SubmenuIds(m) == {m[i].id : i \in 1..Len(m)}

(***************************************************************************)
(* lib.rs: startup                                                         *)
(***************************************************************************)
\* let app_menu = menu::create_menu(app.handle())?;
CreateMenu ==
    /\ pc = "start"
    /\ \E failAt \in 0..CreateSteps(macos) :
        LET r == create_menu(macos, failAt) IN
        /\ createFail' = failAt
        /\ app_menu' = r.menu
        /\ pc' = IF r.ok THEN "created" ELSE "aborted"
    /\ createCalls' = createCalls + 1
    /\ UNCHANGED <<macos, menu, handler, window>>

set_menu_skipped(ok) ==
    /\ pc' = IF ok THEN "menu_set" ELSE "aborted"
    /\ app_menu' = NoMenu
    /\ UNCHANGED menu

\* app.set_menu(app_menu)?;  -- app_menu is moved into the call
set_menu(ok) ==
    /\ pc' = IF ok THEN "menu_set" ELSE "aborted"
    /\ app_menu' = NoMenu
    /\ menu' = IF ok THEN app_menu ELSE menu

SetMenu ==
    /\ pc = "created"
    /\ \E ok \in BOOLEAN : set_menu(ok)
    /\ UNCHANGED <<macos, handler, window, createFail, createCalls>>

\* app.on_menu_event(...); Ok(())  -- the setup closure returns and the event loop runs
OnMenuEvent ==
    /\ pc = "menu_set"
    /\ handler' = TRUE
    /\ pc' = "running"
    /\ UNCHANGED <<macos, app_menu, menu, window, createFail, createCalls>>

\* The main webview window is destroyed (lib.rs:28-31 provides for its absence).
CloseWindow ==
    /\ pc = "running"
    /\ window
    /\ window' = FALSE
    /\ UNCHANGED <<macos, pc, app_menu, menu, handler, createFail, createCalls>>

(***************************************************************************)
(* lib.rs: handle_menu_event                                               *)
(***************************************************************************)
Unit == "()"

\* the match arms of handle_menu_event: identifier -> event name
DispatchTable ==
    [x \in {"file:new", "file:open", "file:save", "file:save-as", "file:exit",
            "edit:find", "view:edit-mode", "view:preview-mode", "view:split-mode",
            "view:zoom-in", "view:zoom-out", "view:reset-zoom",
            "help:about", "help:docs", "help:shortcuts"} |->
        CASE x = "file:new" -> "menu:file:new"
          [] x = "file:open" -> "menu:file:open"
          [] x = "file:save" -> "menu:file:save"
          [] x = "file:save-as" -> "menu:file:save-as"
          [] x = "file:exit" -> "menu:file:exit"
          [] x = "edit:find" -> "menu:edit:find"
          [] x = "view:edit-mode" -> "menu:view:edit-mode"
          [] x = "view:preview-mode" -> "menu:view:preview-mode"
          [] x = "view:split-mode" -> "menu:view:split-mode"
          [] x = "view:zoom-in" -> "menu:view:zoom-in"
          [] x = "view:zoom-out" -> "menu:view:zoom-out"
          [] x = "view:reset-zoom" -> "menu:view:reset-zoom"
          [] x = "help:about" -> "menu:help:about"
          [] x = "help:docs" -> "menu:help:docs"
          [] x = "help:shortcuts" -> "menu:help:shortcuts"]

handle_menu_event_swapped(win, id) ==
    IF ~win THEN <<>>
    ELSE IF id = "view:zoom-in" THEN << [name |-> "menu:view:zoom-out", payload |-> Unit] >>
    ELSE IF id \in DOMAIN DispatchTable
         THEN << [name |-> DispatchTable[id], payload |-> Unit] >>
         ELSE <<>>

\* handle_menu_event: the window.emit calls it makes, in order
handle_menu_event(win, id) ==
    IF ~win THEN <<>>                                   \* None => return
    ELSE IF id \in DOMAIN DispatchTable
         THEN << [name |-> DispatchTable[id], payload |-> Unit] >>
         ELSE <<>>                                      \* _ => {}

\* An identifier no menu item carries (a stale or foreign event id).
UnknownIds == {"tools:unknown"}

MaxClicks == 2

\* The OS raises a click; the registered callback runs handle_menu_event.
MenuClick ==
    /\ pc = "running"
    /\ handler
    /\ clicks < MaxClicks
    /\ \E id \in (IF menu.some THEN ItemIds(menu.val) ELSE {}) \cup UnknownIds :
        /\ emitted' = handle_menu_event(window, id)
        /\ lastClick' = [id |-> id, window |-> window, installed |-> menu.some]
    /\ clicks' = clicks + 1
    /\ UNCHANGED menuVars

(***************************************************************************)
(* commands.rs: update_menu_labels                                         *)
(***************************************************************************)
\* A library call of the traversal that returns Err: menu.items() (of "<menu>"),
\* submenu.items() or set_text of the object with identifier id; NoFail: none.
NoFail == [op |-> "none", id |-> ""]
FailOf(op, id) == [op |-> op, id |-> id]

Ok == [ok |-> TRUE]
Err(e) == [ok |-> FALSE, err |-> e]

RECURSIVE RelabelChildren(_, _, _, _)
\* for child in &children, from the j-th child on (ok = FALSE: a set_text
\* failed and the `?` returned).
RelabelChildren(items, labels, fail, j) ==
    IF j > Len(items) THEN [ok |-> TRUE, items |-> items]
    ELSE IF items[j].kind \notin {"MenuItem", "Check"}                 \* _ => continue
         THEN RelabelChildren(items, labels, fail, j + 1)
    ELSE IF items[j].id \notin DOMAIN labels
         THEN RelabelChildren(items, labels, fail, j + 1)
    ELSE IF fail = FailOf("set_text", items[j].id)
         THEN [ok |-> FALSE, items |-> items]
    ELSE RelabelChildren([items EXCEPT ![j].text = labels[items[j].id]],
                         labels, fail, j + 1)

\* The body of `if let MenuItemKind::Submenu(submenu) = item`.
RelabelSubmenu(sm, labels, fail) ==
    IF sm.id \in DOMAIN labels /\ fail = FailOf("set_text", sm.id)
    THEN [ok |-> FALSE, sm |-> sm]
    ELSE LET named == IF sm.id \in DOMAIN labels
                      THEN [sm EXCEPT !.text = labels[sm.id]] ELSE sm
         IN  IF fail = FailOf("items", sm.id)
             THEN [ok |-> FALSE, sm |-> named]
             ELSE LET r == RelabelChildren(sm.items, labels, fail, 1)
                  IN  [ok |-> r.ok, sm |-> [named EXCEPT !.items = r.items]]

RECURSIVE RelabelItems(_, _, _, _)
\* for item in &items, from the i-th top-level item on
RelabelItems(m, labels, fail, i) ==
    IF i > Len(m) THEN [ok |-> TRUE, menu |-> m]
    ELSE IF m[i].kind # "Submenu" THEN RelabelItems(m, labels, fail, i + 1)
    ELSE LET r == RelabelSubmenu(m[i], labels, fail)
         IN  IF r.ok
             THEN RelabelItems([m EXCEPT ![i] = r.sm], labels, fail, i + 1)
             ELSE [ok |-> FALSE, menu |-> [m EXCEPT ![i] = r.sm]]

update_menu_labels_top_only(cur, labels, fail) ==
    IF ~cur.some THEN [result |-> Err("No menu found"), menu |-> cur]
    ELSE [result |-> Ok,
          menu |-> Some([i \in 1..Len(cur.val) |->
                            IF cur.val[i].id \in DOMAIN labels
                            THEN [cur.val[i] EXCEPT !.text = labels[cur.val[i].id]]
                            ELSE cur.val[i]])]

update_menu_labels_rollback(cur, labels, fail) ==
    IF ~cur.some THEN [result |-> Err("No menu found"), menu |-> cur]
    ELSE IF fail = FailOf("items", "<menu>")
    THEN [result |-> Err(fail.op), menu |-> cur]
    ELSE LET r == RelabelItems(cur.val, labels, fail, 1)
         IN  IF r.ok THEN [result |-> Ok, menu |-> Some(r.menu)]
             ELSE [result |-> Err(fail.op), menu |-> cur]

\* update_menu_labels(app, labels): its Result and the menu it leaves.
update_menu_labels(cur, labels, fail) ==
    IF ~cur.some THEN [result |-> Err("No menu found"), menu |-> cur]
    ELSE IF fail = FailOf("items", "<menu>")
    THEN [result |-> Err(fail.op), menu |-> cur]
    ELSE LET r == RelabelItems(cur.val, labels, fail, 1)
         IN  [result |-> IF r.ok THEN Ok ELSE Err(fail.op),
              menu |-> Some(r.menu)]

\* The label a menu tree shows for identifier id (a submenu or a child).
TextOf(m, id) ==
    LET labelled == {m[i] : i \in 1..Len(m)} \cup
                    UNION {{m[i].items[j] : j \in 1..Len(m[i].items)} : i \in 1..Len(m)}
    IN  (CHOOSE x \in labelled : x.id = id).text

MaxUpdates == 2

\* The mappings the front end sends: one key (with either label, so a later
\* call can overwrite an earlier one), a submenu and one of its children, two
\* children of different submenus, a key that only one platform's menu has,
\* and a key of no item.
Mappings ==
    { ("file:open" :> "Open (en)"),
      ("file:open" :> "Ouvrir (fr)"),
      ("file" :> "File (en)" @@ "file:open" :> "Ouvrir (fr)"),
      ("file:open" :> "Open (en)" @@ "help:docs" :> "Docs (en)"),
      ("help:about" :> "A propos (fr)"),
      ("nope:unknown" :> "Unknown (en)") }

\* The library calls of the traversal that may fail.
Fails ==
    { NoFail, FailOf("items", "<menu>"),
      FailOf("set_text", "file"), FailOf("items", "file"),
      FailOf("set_text", "file:open"), FailOf("set_text", "help:docs") }

NoUpdate == [called |-> FALSE, labels |-> <<>>, fail |-> NoFail, result |-> Ok,
             before |-> NoMenu]

UpdateMenuLabels ==
    /\ pc # "aborted"
    /\ updates < MaxUpdates
    /\ \E labels \in Mappings, fail \in Fails :
        LET r == update_menu_labels(menu, labels, fail) IN
        /\ menu.some \/ fail = NoFail      \* without a menu no library call is made
        /\ menu' = r.menu
        /\ lastUpdate' = [called |-> TRUE, labels |-> labels, fail |-> fail,
                          result |-> r.result, before |-> menu]
        /\ clean' = (clean /\ r.result.ok)
        /\ expected' = IF r.result.ok
                       THEN [id \in DOMAIN expected |->
                                IF id \in DOMAIN labels THEN labels[id] ELSE expected[id]]
                       ELSE expected
    /\ updates' = updates + 1
    /\ UNCHANGED <<macos, pc, app_menu, handler, window, createFail, createCalls>>

(***************************************************************************)
(* commands.rs: read_file, write_file                                      *)
(*                                                                         *)
(* A Rust String is a sequence of Unicode scalar values held as UTF-8; a   *)
(* file is a sequence of bytes.  fs::write stores the string's UTF-8 bytes *)
(* and fs::read_to_string validates the bytes it reads as UTF-8.           *)
(***************************************************************************)
Paths == {"/docs/a.md", "/docs/b.md"}
Chars == {65, 233}            \* 'A' (one byte in UTF-8), 'e-acute' (two bytes)
MaxLen == 1

RECURSIVE SeqsUpTo(_, _)
SeqsUpTo(S, n) ==
    IF n = 0 THEN {<<>>}
    ELSE LET shorter == SeqsUpTo(S, n - 1)
         IN  shorter \cup {Append(t, x) : t \in shorter, x \in S}

Texts == SeqsUpTo(Chars, MaxLen)

\* char::encode_utf8 for scalar values below 0x800
EncodeChar(c) ==
    IF c < 128 THEN <<c>> ELSE <<192 + (c \div 64), 128 + (c % 64)>>

RECURSIVE as_bytes(_)
\* str::as_bytes: the UTF-8 encoding of the text
as_bytes(text) ==
    IF text = <<>> THEN <<>> ELSE EncodeChar(Head(text)) \o as_bytes(Tail(text))

RECURSIVE Utf8Decode(_, _)
\* The validation loop of String::from_utf8 on one- and two-byte forms, text
\* being what is decoded so far: None at a stray continuation byte, an overlong
\* lead, a truncated sequence or a longer form.
Utf8Decode(bytes, text) ==
    IF bytes = <<>> THEN Some(text)
    ELSE IF bytes[1] < 128
         THEN Utf8Decode(Tail(bytes), Append(text, bytes[1]))
    ELSE IF bytes[1] >= 194 /\ bytes[1] <= 223 /\ Len(bytes) >= 2
            /\ bytes[2] >= 128 /\ bytes[2] <= 191
         THEN Utf8Decode(Tail(Tail(bytes)),
                         Append(text, (bytes[1] - 192) * 64 + (bytes[2] - 128)))
    ELSE None

\* String::from_utf8, which fs::read_to_string applies to the bytes it read
from_utf8(bytes) == Utf8Decode(bytes, <<>>)

\* A file: its bytes and the access the OS grants this process on it.
NoFile == None
File(bytes, r, w) == Some([bytes |-> bytes, r |-> r, w |-> w])

FileResult(success, content, error) ==
    [success |-> success, content |-> content, error |-> error]

read_file_empty_on_error(file) ==
    IF ~file.some
    THEN FileResult(FALSE, Some(<<>>), Some("No such file or directory (os error 2)"))
    ELSE IF ~file.val.r
    THEN FileResult(FALSE, Some(<<>>), Some("Permission denied (os error 13)"))
    ELSE LET text == from_utf8(file.val.bytes)
         IN  IF text.some
             THEN FileResult(TRUE, Some(text.val), None)
             ELSE FileResult(FALSE, Some(<<>>), Some("stream did not contain valid UTF-8"))

\* read_file(path): fs::read_to_string fails when the path does not exist, when
\* the process may not read it, or when its bytes are not valid UTF-8.
read_file(file) ==
    IF ~file.some
    THEN FileResult(FALSE, None, Some("No such file or directory (os error 2)"))
    ELSE IF ~file.val.r
    THEN FileResult(FALSE, None, Some("Permission denied (os error 13)"))
    ELSE LET text == from_utf8(file.val.bytes)
         IN  IF text.some
             THEN FileResult(TRUE, Some(text.val), None)
             ELSE FileResult(FALSE, None, Some("stream did not contain valid UTF-8"))

\* What fs::write leaves at the path once it has opened it and written
\* `bytes`: an existing file keeps its access, a created one is the
\* process's own (readable and writable).
Written(file, bytes) ==
    IF file.some THEN File(bytes, file.val.r, file.val.w) ELSE File(bytes, TRUE, TRUE)

write_file_append(file, may_create, content, written) ==
    IF (file.some /\ ~file.val.w) \/ (~file.some /\ ~may_create)
    THEN [result |-> FileResult(FALSE, None, Some("Permission denied (os error 13)")),
          file |-> file]
    ELSE IF written < Len(as_bytes(content))
    THEN [result |-> FileResult(FALSE, None, Some("No space left on device (os error 28)")),
          file |-> Written(file, SubSeq(as_bytes(content), 1, written))]
    ELSE [result |-> FileResult(TRUE, None, None),
          file |-> Written(file, (IF file.some THEN file.val.bytes ELSE <<>>)
                                 \o as_bytes(content))]

\* write_file(path, content): fs::write creates or truncates the file and
\* writes the bytes.  It fails before touching the file when the process may
\* not write it (or not create it), or part-way (written < length), leaving
\* what it wrote.
write_file(file, may_create, content, written) ==
    IF (file.some /\ ~file.val.w) \/ (~file.some /\ ~may_create)
    THEN [result |-> FileResult(FALSE, None, Some("Permission denied (os error 13)")),
          file |-> file]
    ELSE IF written < Len(as_bytes(content))
    THEN [result |-> FileResult(FALSE, None, Some("No space left on device (os error 28)")),
          file |-> Written(file, SubSeq(as_bytes(content), 1, written))]
    ELSE [result |-> FileResult(TRUE, None, None),
          file |-> Written(file, as_bytes(content))]

NoCommand == [op |-> "none"]

ReadFile ==
    \E path \in Paths :
        /\ lastFile' = [op |-> "read", path |-> path, result |-> read_file(fs[path])]
        /\ UNCHANGED <<fs, dirw, pending>>

WriteFile ==
    \E path \in Paths, content \in Texts :
      \E written \in 0..Len(as_bytes(content)) :
        LET w == write_file(fs[path], dirw[path], content, written) IN
        /\ fs' = [fs EXCEPT ![path] = w.file]
        /\ pending' = [pending EXCEPT ![path] =
                          IF w.result.success THEN Some(content)
                          ELSE IF w.file = fs[path] THEN @ ELSE None]
        /\ lastFile' = [op |-> "write", path |-> path, content |-> content,
                        result |-> w.result]
        /\ UNCHANGED dirw

\* Bytes another program may leave in a file: valid text, and a lone lead
\* byte (not valid UTF-8).
ForeignContents == {<<65>>, <<195>>}

\* Another program creates, rewrites, re-modes or removes the file.
ExternalChange ==
    \E path \in Paths,
       file \in {NoFile} \cup {File(b, r, w) : b \in ForeignContents, r \in BOOLEAN, w \in BOOLEAN} :
        /\ file # fs[path]
        /\ fs' = [fs EXCEPT ![path] = file]
        /\ pending' = [pending EXCEPT ![path] = None]
        /\ lastFile' = NoCommand
        /\ UNCHANGED dirw

(***************************************************************************)
(* commands.rs: open_file_dialog, save_file_dialog                         *)
(*                                                                         *)
(* Each invocation creates its own mpsc channel (tx, rx), moves tx into    *)
(* the closure it hands to the native dialog and blocks in rx.recv().      *)
(***************************************************************************)
MaxInvocations == 2
Invocations == 1..MaxInvocations

\* What a native dialog can deliver: a FilePath (a path or a URL), or None
\* when the user cancels.
FilePaths == {[kind |-> "Path", raw |-> "/docs/notes.md"],
              [kind |-> "Url", raw |-> "file:///docs/b.txt"]}
Deliveries == {None} \cup {Some(f) : f \in FilePaths}
DefaultNames == {None, Some("notes.md")}

\* FilePath::to_string: the path's, or the URL's, text
to_string(f) == f.raw

DialogResult(path, canceled) == [path |-> path, canceled |-> canceled]

Idle == [state |-> "idle", kind |-> "", default_name |-> None, chan |-> <<>>,
         tx |-> "none", sends |-> 0, result |-> None]

dialog_result_never_canceled(file_path) ==
    IF file_path.some
    THEN DialogResult(Some(to_string(file_path.val)), FALSE)
    ELSE DialogResult(None, FALSE)

\* match file_path { Some(path) => ..., None => ... }
dialog_result(file_path) ==
    IF file_path.some
    THEN DialogResult(Some(to_string(file_path.val)), FALSE)
    ELSE DialogResult(None, TRUE)

\* open_file_dialog up to rx.recv(): channel created, dialog shown with the
\* closure holding tx.
OpenFileDialog ==
    \E i \in Invocations :
        /\ inv[i].state = "idle"
        /\ inv' = [inv EXCEPT ![i] = [Idle EXCEPT !.state = "waiting", !.kind = "open",
                                                  !.tx = "held"]]
        /\ UNCHANGED pick

\* save_file_dialog up to rx.recv()
SaveFileDialog ==
    \E i \in Invocations, default_name \in DefaultNames :
        /\ inv[i].state = "idle"
        /\ inv' = [inv EXCEPT ![i] = [Idle EXCEPT !.state = "waiting", !.kind = "save",
                                                  !.default_name = default_name,
                                                  !.tx = "held"]]
        /\ UNCHANGED pick

tx_shared(i) == 1

\* The channel the closure of invocation i sends on: the tx moved into it.
tx_of(i) == i

\* The native dialog of invocation i calls its closure: let _ = tx.send(file_path).
\* The closure is consumed by the call, and tx with it.
DialogCallback ==
    \E i \in Invocations, file_path \in Deliveries :
        /\ inv[i].state = "waiting"
        /\ inv[i].tx = "held"
        /\ inv' = [j \in Invocations |->
                     LET sent == IF j = tx_of(i)
                                 THEN [inv[j] EXCEPT !.chan = Append(@, file_path),
                                                     !.sends = @ + 1]
                                 ELSE inv[j]
                     IN  IF j = i THEN [sent EXCEPT !.tx = "dropped"] ELSE sent]
        /\ pick' = [pick EXCEPT ![i] = Some(file_path)]

\* The dialog goes away without calling the closure: tx is dropped unsent.
CallbackDropped ==
    \E i \in Invocations :
        /\ inv[i].state = "waiting"
        /\ inv[i].tx = "held"
        /\ inv' = [inv EXCEPT ![i].tx = "dropped"]
        /\ UNCHANGED pick

\* rx.recv() returns (a value is queued, or every sender is gone) and the
\* handler returns its Result.
DialogReturn ==
    \E i \in Invocations :
        /\ inv[i].state = "waiting"
        /\ inv[i].chan # <<>> \/ inv[i].tx = "dropped"
        /\ inv' = [inv EXCEPT
                    ![i].state = "returned",
                    ![i].chan = IF @ = <<>> THEN @ ELSE Tail(@),
                    ![i].result =
                        Some(IF inv[i].chan = <<>>
                             THEN Err("receiving on a closed channel")
                             ELSE [ok |-> TRUE, val |-> dialog_result(Head(inv[i].chan))])]
        /\ UNCHANGED pick

(***************************************************************************)
(* Specifications                                                          *)
(***************************************************************************)
StartupIds(mac) == SubmenuIds(Submenus(mac)) \cup ItemIds(Submenus(mac))

InitMenu ==
    /\ pc = "start"
    /\ app_menu = NoMenu
    /\ menu = NoMenu
    /\ handler = FALSE
    /\ window = TRUE
    /\ createFail = 0
    /\ createCalls = 0
    /\ clicks = 0
    /\ lastClick = [id |-> "", window |-> TRUE, installed |-> FALSE]
    /\ emitted = <<>>
    /\ updates = 0
    /\ lastUpdate = NoUpdate
    /\ expected = [id \in StartupIds(macos) |-> TextOf(Submenus(macos), id)]
    /\ clean = TRUE

InitFs ==
    /\ fs = [p \in Paths |-> NoFile]
    /\ pending = [p \in Paths |-> None]
    /\ lastFile = NoCommand

InitDialog ==
    /\ inv = [i \in Invocations |-> Idle]
    /\ pick = [i \in Invocations |-> None]

AllAccess == [p \in Paths |-> TRUE]

\* startup and menu clicks, on either platform
InitDispatch ==
    /\ macos \in BOOLEAN
    /\ dirw = AllAccess
    /\ InitMenu /\ InitFs /\ InitDialog

NextDispatch ==
    \/ CreateMenu /\ UNCHANGED <<clickVars, labelVars, fsVars, dialogVars>>
    \/ SetMenu /\ UNCHANGED <<clickVars, labelVars, fsVars, dialogVars>>
    \/ OnMenuEvent /\ UNCHANGED <<clickVars, labelVars, fsVars, dialogVars>>
    \/ CloseWindow /\ UNCHANGED <<clickVars, labelVars, fsVars, dialogVars>>
    \/ MenuClick /\ UNCHANGED <<labelVars, fsVars, dialogVars>>

SpecDispatch == InitDispatch /\ [][NextDispatch]_vars

\* startup and update_menu_labels, on either platform
NextLabels ==
    \/ CreateMenu /\ UNCHANGED <<clickVars, labelVars, fsVars, dialogVars>>
    \/ SetMenu /\ lastUpdate' = NoUpdate
               /\ UNCHANGED <<updates, expected, clean, clickVars, fsVars, dialogVars>>
    \/ OnMenuEvent /\ UNCHANGED <<clickVars, labelVars, fsVars, dialogVars>>
    \/ UpdateMenuLabels /\ UNCHANGED <<clickVars, fsVars, dialogVars>>

SpecLabels == InitDispatch /\ [][NextLabels]_vars

\* the file commands, each path in a directory the process may or may not write
InitFiles ==
    /\ macos = FALSE
    /\ dirw \in [Paths -> BOOLEAN]
    /\ InitMenu /\ InitFs /\ InitDialog

NextFiles ==
    \/ ReadFile /\ UNCHANGED <<menuVars, clickVars, labelVars, dialogVars>>
    \/ WriteFile /\ UNCHANGED <<menuVars, clickVars, labelVars, dialogVars>>
    \/ ExternalChange /\ UNCHANGED <<menuVars, clickVars, labelVars, dialogVars>>

SpecFs == InitFiles /\ [][NextFiles]_vars

\* the dialog commands, several invocations in flight
InitDialogs ==
    /\ macos = FALSE
    /\ dirw = AllAccess
    /\ InitMenu /\ InitFs /\ InitDialog

NextDialogs ==
    \/ OpenFileDialog /\ UNCHANGED <<menuVars, clickVars, labelVars, fsVars>>
    \/ SaveFileDialog /\ UNCHANGED <<menuVars, clickVars, labelVars, fsVars>>
    \/ DialogCallback /\ UNCHANGED <<menuVars, clickVars, labelVars, fsVars>>
    \/ CallbackDropped /\ UNCHANGED <<menuVars, clickVars, labelVars, fsVars>>
    \/ DialogReturn /\ UNCHANGED <<menuVars, clickVars, labelVars, fsVars>>

SpecDialog == InitDialogs /\ [][NextDialogs]_vars

(***************************************************************************)
(* Properties                                                              *)
(***************************************************************************)

\* ---------------------------------------------------------------- files
\* C1 (as stated): when the last command is a read_file(p) and the last
\* modification of p before it was a successful write_file(p, c), the read
\* returns success = true, content = c and no error, for every path p.
C1_RoundTripEveryPath ==
    (lastFile.op = "read" /\ pending[lastFile.path].some) =>
        lastFile.result = FileResult(TRUE, Some(pending[lastFile.path].val), None)

\* C1 (amended): the same, for every path p whose file the process may read.
C1_RoundTripReadablePath ==
    (/\ lastFile.op = "read"
     /\ pending[lastFile.path].some
     /\ fs[lastFile.path].some
     /\ fs[lastFile.path].val.r) =>
        lastFile.result = FileResult(TRUE, Some(pending[lastFile.path].val), None)

\* C1 witness: a two-byte character written and read back from a readable file.
C1_Witness ==
    /\ lastFile.op = "read"
    /\ pending[lastFile.path] = Some(<<233>>)
    /\ fs[lastFile.path].some
    /\ fs[lastFile.path].val.r
    /\ lastFile.result.success

\* The text a byte sequence is the UTF-8 encoding of, if any.
TextsOf(bytes) == {t \in Texts : as_bytes(t) = bytes}

\* C5: every FileResult of read_file and write_file has error present iff
\* success = false and content present only if success = true; read_file
\* returns the file's text when the file exists, is readable and is valid
\* text, and (false, None, non-empty error) otherwise; write_file never
\* returns content; the result is always a FileResult.
C5_FileResultShape ==
    lastFile.op \in {"read", "write"} =>
        LET r == lastFile.result
            f == fs[lastFile.path]
        IN  /\ DOMAIN r = {"success", "content", "error"}
            /\ r.success \in BOOLEAN
            /\ r.error.some <=> ~r.success
            /\ r.content.some => r.success
            /\ r.error.some => r.error.val # ""
            /\ lastFile.op = "write" => r.content = None
            /\ lastFile.op = "read" =>
                IF f.some /\ f.val.r /\ TextsOf(f.val.bytes) # {}
                THEN /\ r.success
                     /\ r.content.some
                     /\ r.content.val \in TextsOf(f.val.bytes)
                     /\ r.error = None
                ELSE /\ ~r.success
                     /\ r.content = None
                     /\ r.error.some

\* C5 witness: a read of a path that does not exist has failed.
C5_Witness ==
    /\ lastFile.op = "read"
    /\ ~fs[lastFile.path].some
    /\ ~lastFile.result.success
    /\ lastFile.result.error.some

\* ------------------------------------------------------------- dispatch
\* The outbound events of the interface: identifier X -> "menu:" followed by X.
MenuEventOf ==
    ("file:new" :> "menu:file:new") @@ ("file:open" :> "menu:file:open") @@
    ("file:save" :> "menu:file:save") @@ ("file:save-as" :> "menu:file:save-as") @@
    ("file:exit" :> "menu:file:exit") @@ ("edit:find" :> "menu:edit:find") @@
    ("view:edit-mode" :> "menu:view:edit-mode") @@
    ("view:preview-mode" :> "menu:view:preview-mode") @@
    ("view:split-mode" :> "menu:view:split-mode") @@
    ("view:zoom-in" :> "menu:view:zoom-in") @@ ("view:zoom-out" :> "menu:view:zoom-out") @@
    ("view:reset-zoom" :> "menu:view:reset-zoom") @@
    ("help:about" :> "menu:help:about") @@ ("help:docs" :> "menu:help:docs") @@
    ("help:shortcuts" :> "menu:help:shortcuts")

MenuEventNames == {MenuEventOf[x] : x \in DOMAIN MenuEventOf}

\* What the interface says a click with identifier id emits.
EmittedFor(id) ==
    IF id \in DOMAIN MenuEventOf
    THEN << [name |-> MenuEventOf[id], payload |-> Unit] >>
    ELSE <<>>

\* C2 (as stated): a click with one of the 15 identifiers X emits exactly one
\* event, menu:X, with no payload; any other identifier emits nothing; no
\* event outside the 15 names is ever emitted.
C2_ClickEmitsOneEvent ==
    /\ clicks > 0 => emitted = EmittedFor(lastClick.id)
    /\ \A k \in 1..Len(emitted) : emitted[k].name \in MenuEventNames

\* C2 (amended): the same while the webview window "main" exists; a click
\* dispatched when it does not exist emits nothing.
C2_ClickEmitsOneEventWithWindow ==
    /\ (clicks > 0 /\ lastClick.window) => emitted = EmittedFor(lastClick.id)
    /\ (clicks > 0 /\ ~lastClick.window) => emitted = <<>>
    /\ \A k \in 1..Len(emitted) : emitted[k].name \in MenuEventNames

\* C2 witness: the click on view:zoom-in, dispatched while the window exists,
\* has emitted menu:view:zoom-in.
C2_Witness ==
    /\ clicks > 0
    /\ lastClick.id = "view:zoom-in"
    /\ lastClick.window
    /\ emitted = << [name |-> "menu:view:zoom-in", payload |-> Unit] >>

\* C3: every identifier given to MenuItem::with_id in the installed menu, on
\* either platform, has an entry in the dispatch table of handle_menu_event
\* (so that a click on the item emits menu:X).
C3_EveryItemDispatches ==
    menu.some =>
        \A id \in ItemIds(menu.val) :
            /\ id \in DOMAIN DispatchTable
            /\ handle_menu_event(TRUE, id) = EmittedFor(id)
            /\ EmittedFor(id) # <<>>

\* C8: create_menu is called at most once; the handler is registered only
\* after the fully built menu was installed; every dispatched menu event found
\* the menu installed.
C8_MenuInstalledBeforeDispatch ==
    /\ createCalls <= 1
    /\ pc \in {"menu_set", "running"} => menu = Some(Submenus(macos))
    /\ handler => (menu = Some(Submenus(macos)) /\ createCalls = 1)
    /\ clicks > 0 => (lastClick.installed /\ handler)

\* C8 witness: a menu event has been dispatched, with the menu installed.
C8_Witness ==
    /\ clicks > 0
    /\ handler
    /\ lastClick.installed
    /\ menu = Some(Submenus(macos))

\* C9: when a step of create_menu fails, create_menu returns no menu, none is
\* installed, no handler is registered and startup is aborted: the running
\* state is not reached and no menu event is dispatched.
C9_ConstructionFailureIsFatal ==
    createFail # 0 =>
        /\ pc = "aborted"
        /\ app_menu = NoMenu
        /\ menu = NoMenu
        /\ ~handler
        /\ clicks = 0

\* C9 witness: the very last append of create_menu failed (every submenu was
\* built) and startup is aborted.
C9_Witness ==
    /\ createFail = CreateSteps(macos)
    /\ BuiltBefore(macos, createFail) # <<>>
    /\ pc = "aborted"

\* --------------------------------------------------------------- labels
\* The identifiers and kinds of a menu tree, without the labels.
Shape(m) ==
    [i \in 1..Len(m) |->
        [id |-> m[i].id, kind |-> m[i].kind,
         items |-> [j \in 1..Len(m[i].items) |->
                       [id |-> m[i].items[j].id, kind |-> m[i].items[j].kind]]]]

\* The toolkit's predefined items of a menu tree.
PredefinedOf(m) ==
    [i \in 1..Len(m) |-> SelectSeq(m[i].items, LAMBDA x : x.kind = "Predefined")]

RECURSIVE MenuOrder(_, _)
\* The identifiers update_menu_labels visits, in menu order: each submenu, then
\* its children.
MenuOrder(m, i) ==
    IF i > Len(m) THEN <<>>
    ELSE LET kids == SelectSeq(m[i].items, LAMBDA x : x.kind = "MenuItem")
         IN  <<m[i].id>> \o [j \in 1..Len(kids) |-> kids[j].id] \o MenuOrder(m, i + 1)

PlaceOf(m, id) == CHOOSE k \in 1..Len(MenuOrder(m, 1)) : MenuOrder(m, 1)[k] = id

\* The place in menu order where a failing call stops the traversal: items
\* before it were relabelled, items from it on were not.
StopOf(m, fail) ==
    IF fail.op = "set_text" THEN PlaceOf(m, fail.id)
    ELSE IF fail.id = "<menu>" THEN 1
    ELSE PlaceOf(m, fail.id) + 1

\* C10: without a menu the call returns "No menu found" and changes nothing;
\* a call that fails part-way returns the error, leaves the labels it gave to
\* the items visited before the failure and leaves the later items alone.
C10_FailsFastWithoutRollback ==
    lastUpdate.called =>
        /\ ~lastUpdate.before.some =>
            (lastUpdate.result = Err("No menu found") /\ menu = lastUpdate.before)
        /\ (lastUpdate.before.some /\ ~lastUpdate.result.ok) =>
            /\ lastUpdate.fail # NoFail
            /\ lastUpdate.result.err # ""
            /\ menu.some
            /\ \A id \in StartupIds(macos) :
                TextOf(menu.val, id) =
                    IF /\ id \in DOMAIN lastUpdate.labels
                       /\ PlaceOf(menu.val, id) < StopOf(menu.val, lastUpdate.fail)
                    THEN lastUpdate.labels[id]
                    ELSE TextOf(lastUpdate.before.val, id)

\* C10 witness: relabelling help:docs failed after file:open was relabelled.
C10_Witness ==
    /\ lastUpdate.called
    /\ lastUpdate.before.some
    /\ ~lastUpdate.result.ok
    /\ lastUpdate.fail = FailOf("set_text", "help:docs")
    /\ TextOf(lastUpdate.before.val, "file:open") # "Open (en)"
    /\ TextOf(menu.val, "file:open") = "Open (en)"
    /\ TextOf(menu.val, "help:docs") = TextOf(lastUpdate.before.val, "help:docs")
    /\ TextOf(menu.val, "help:docs") # "Docs (en)"

\* -------------------------------------------------------------- dialogs
Returned(i) == inv[i].state = "returned"

\* C6: a returned DialogResult has canceled = true iff path is absent; a
\* confirmed location gives Ok(path = the chosen path, canceled = false), a
\* cancellation gives Ok(path = None, canceled = true) and never Err, for an
\* open dialog and for a save dialog with or without default_name.
C6_DialogResultShape ==
    \A i \in Invocations :
        Returned(i) =>
            LET r == inv[i].result.val IN
            /\ r.ok => (r.val.canceled <=> ~r.val.path.some)
            /\ (pick[i].some /\ pick[i].val.some) =>
                (r.ok /\ r.val = DialogResult(Some(pick[i].val.val.raw), FALSE))
            /\ (pick[i].some /\ ~pick[i].val.some) =>
                (r.ok /\ r.val = DialogResult(None, TRUE))
            /\ ~r.ok => ~pick[i].some

\* C6 witness: a save dialog opened with default_name = "notes.md" was
\* cancelled and has returned Ok(canceled).
C6_Witness ==
    \E i \in Invocations :
        /\ Returned(i)
        /\ inv[i].kind = "save"
        /\ inv[i].default_name = Some("notes.md")
        /\ pick[i] = Some(None)
        /\ inv[i].result = Some([ok |-> TRUE, val |-> DialogResult(None, TRUE)])

\* C7: at most one value is ever sent on an invocation's channel; a handler
\* returns only after its own callback ran or was dropped; an Ok result
\* carries what its own callback delivered, whatever other invocations do.
C7_OneShotRendezvous ==
    \A i \in Invocations :
        /\ inv[i].sends <= 1
        /\ Len(inv[i].chan) <= 1
        /\ inv[i].sends = (IF pick[i].some THEN 1 ELSE 0)
        /\ Returned(i) =>
            LET r == inv[i].result.val IN
            /\ inv[i].tx = "dropped"
            /\ r.ok => /\ pick[i].some
                       /\ r.val.path = IF pick[i].val.some
                                       THEN Some(pick[i].val.val.raw) ELSE None
            /\ ~r.ok => inv[i].sends = 0

\* C7 witness: two invocations in flight got different values; the first has
\* returned its own while the second's still waits in its channel.
C7_Witness ==
    /\ Returned(1)
    /\ inv[1].result.val.ok
    /\ inv[1].result.val.val.path.some
    /\ inv[2].state = "waiting"
    /\ inv[2].chan = <<None>>

====
